---- MODULE Spec2Model ----
(***************************************************************************)
(* Registration, eviction selection and cross-network eligibility of the   *)
(* subspace pallet (pallets/subspace/src/registration.rs).                 *)
(***************************************************************************)
EXTENDS Integers, Sequences, FiniteSets, TLC

\* ---------------------------------------------------------------- bounds
\* The last block number the chain reaches.
MaxBlock == 1
\* Pruning scores are 0 .. MaxLowScore and u16::MAX.
MaxLowScore == 1

\* ------------------------------------------------------------- constants
U16Max == 65535
U16Mod == U16Max + 1

Nets == 1 .. 8
KeySet == {1, 2, 3}
Scores == (0 .. MaxLowScore) \cup {U16Max}
NoKey == 0
NoUid == -1
NoEdge == -1

\* ----------------------------------------------------------- configuration
\* The configuration storage, which registration only reads.  Network 1 has
\* two slots: it fills up and evicts.  Network 2 admits a key only if it is a
\* top occupant of network 1 (threshold 0).  Networks 3 and 7 have no slots
\* at all; 7 requires a standing on network 1 with the largest threshold.
\* Network 4 was never added.  Network 5 requires networks 1 and 3, of which
\* 3 can never be occupied.  Network 6 requires itself.  Network 1 names
\* network 4 in a requirement.  Network 8 has three slots and is closed to
\* registration (its throttle is 0).
NetworksAdded == [n \in Nets |-> n # 4]

MaxAllowedUids ==
    [n \in Nets |-> CASE n = 1 -> 2 [] n = 8 -> 3 [] n \in {3, 7} -> 0
                      [] OTHER -> 1]

ImmunityPeriod == [n \in Nets |-> IF n \in {1, 8} THEN 1 ELSE 0]

MaxRegistrationsPerBlock ==
    [n \in Nets |-> CASE n = 1 -> 3 [] n \in {4, 8} -> 0 [] OTHER -> 1]

NoEdges == [a \in Nets |-> [b \in Nets |-> NoEdge]]

NetworkConnect ==
    [NoEdges EXCEPT ![2][1] = 0, ![1][4] = 0, ![5][1] = U16Max,
                    ![5][3] = U16Max, ![6][6] = U16Max, ![7][1] = U16Max]

\* The uids of the largest network.
UidSpace == 0 .. 2

\* The networks the scoring mechanism runs on and the selector is called for
\* outside a registration.
ScoredNets == {1}

VARIABLES
    SubnetworkN,                \* netuid -> u16
    Keys,                       \* netuid -> uid -> key or NoKey
    Uids,                       \* netuid -> key -> uid or NoUid
    PruningScores,              \* netuid -> uid -> u16
    BlockAtRegistration,        \* netuid -> uid -> u64
    RegistrationsThisBlock,     \* netuid -> u16
    RegistrationsThisInterval,  \* netuid -> u16
    Accounts,                   \* set of keys that have a ledger account
    current_block,              \* u64
    last                        \* the last call and what it returned

slotVars == <<SubnetworkN, Keys, Uids, BlockAtRegistration>>
counterVars == <<RegistrationsThisBlock, RegistrationsThisInterval>>
vars == <<slotVars, PruningScores, counterVars, Accounts, current_block, last>>

Idle == [op |-> "none", netuid |-> 0, key |-> NoKey, res |-> "Ok", uid |-> 0]

Init ==
    /\ SubnetworkN = [n \in Nets |-> 0]
    /\ Keys = [n \in Nets |-> [u \in UidSpace |-> NoKey]]
    /\ Uids = [n \in Nets |-> [k \in KeySet |-> NoUid]]
    /\ PruningScores = [n \in Nets |-> [u \in UidSpace |-> 0]]
    /\ BlockAtRegistration = [n \in Nets |-> [u \in UidSpace |-> 0]]
    /\ RegistrationsThisBlock = [n \in Nets |-> 0]
    /\ RegistrationsThisInterval = [n \in Nets |-> 0]
    /\ Accounts = {k \in KeySet : k > 1}
    /\ current_block = 0
    /\ last = Idle

\* ------------------------------------------------------ eviction selector
\* A neuron is in its immunity period.
in_immunity_period(netuid, uid) ==
    current_block - BlockAtRegistration[netuid][uid] < ImmunityPeriod[netuid]

\* prune_step with the immune candidate replaced on equal scores too.
prune_step_immune_tie(netuid, neuron_uid_i, acc) ==
    LET pruning_score == PruningScores[netuid][neuron_uid_i]
        immune == in_immunity_period(netuid, neuron_uid_i)
        take == IF immune
                THEN IF acc.min_score_in_immunity_period >= pruning_score
                     THEN [acc EXCEPT
                             !.min_score_in_immunity_period = pruning_score,
                             !.uid_with_min_score_in_immunity_period = neuron_uid_i]
                     ELSE acc
                ELSE [acc EXCEPT !.min_score = pruning_score,
                                 !.uid_with_min_score = neuron_uid_i]
    IN  IF acc.min_score = pruning_score THEN take
        ELSE IF acc.min_score > pruning_score THEN take
        ELSE acc

\* One iteration of the scan loop over neuron_uid_i.
prune_step(netuid, neuron_uid_i, acc) ==
    LET pruning_score == PruningScores[netuid][neuron_uid_i]
        immune == in_immunity_period(netuid, neuron_uid_i)
        take == IF immune
                THEN IF acc.min_score_in_immunity_period > pruning_score
                     THEN [acc EXCEPT
                             !.min_score_in_immunity_period = pruning_score,
                             !.uid_with_min_score_in_immunity_period = neuron_uid_i]
                     ELSE acc
                ELSE [acc EXCEPT !.min_score = pruning_score,
                                 !.uid_with_min_score = neuron_uid_i]
    IN  IF acc.min_score = pruning_score THEN take
        ELSE IF acc.min_score > pruning_score THEN take
        ELSE acc

RECURSIVE prune_scan(_, _, _)
prune_scan(netuid, neuron_uid_i, acc) ==
    IF neuron_uid_i >= SubnetworkN[netuid] THEN acc
    ELSE prune_scan(netuid, neuron_uid_i + 1, prune_step(netuid, neuron_uid_i, acc))

\* prune_init with uid 1 as the default of both candidates.
prune_init_default_one ==
    [min_score |-> U16Max, min_score_in_immunity_period |-> U16Max,
     uid_with_min_score |-> 1, uid_with_min_score_in_immunity_period |-> 1]

prune_init ==
    [min_score |-> U16Max, min_score_in_immunity_period |-> U16Max,
     uid_with_min_score |-> 0, uid_with_min_score_in_immunity_period |-> 0]

\* The uid get_neuron_to_prune returns.
neuron_to_prune(netuid) ==
    IF SubnetworkN[netuid] = 0 THEN 0
    ELSE LET acc == prune_scan(netuid, 0, prune_init)
         IN  IF acc.min_score = U16Max
             THEN acc.uid_with_min_score_in_immunity_period
             ELSE acc.uid_with_min_score

\* scores_after_prune without the write of the all-immune branch.
scores_after_prune_no_immune_write(netuid) ==
    IF SubnetworkN[netuid] = 0 THEN PruningScores
    ELSE IF prune_scan(netuid, 0, prune_init).min_score = U16Max
    THEN PruningScores
    ELSE [PruningScores EXCEPT ![netuid][neuron_to_prune(netuid)] = U16Max]

\* scores_after_prune with no write at all.
scores_after_prune_no_write(netuid) == PruningScores

\* The pruning scores get_neuron_to_prune leaves behind.
scores_after_prune(netuid) ==
    IF SubnetworkN[netuid] = 0 THEN PruningScores
    ELSE [PruningScores EXCEPT ![netuid][neuron_to_prune(netuid)] = U16Max]

get_neuron_to_prune(netuid) ==
    /\ PruningScores' = scores_after_prune(netuid)
    /\ last' = [op |-> "get_neuron_to_prune", netuid |-> netuid, key |-> NoKey,
                res |-> "Ok", uid |-> neuron_to_prune(netuid)]
    /\ UNCHANGED <<slotVars, counterVars, Accounts, current_block>>

\* --------------------------------------------------- eligibility evaluator
\* I32F32::from_num(a) / I32F32::from_num(b) for u16 a, b with b # 0: the
\* truncated quotient a * 2^32 / b, as its integer part followed by the four
\* base-256 digits of its 32 fractional bits.
RECURSIVE frac_digits(_, _, _)
frac_digits(r, b, k) ==
    IF k = 0 THEN <<>>
    ELSE <<(r * 256) \div b>> \o frac_digits((r * 256) % b, b, k - 1)

\* I32F32_div with 16 fractional bits only.
I32F32_div_16_bits(a, b) == <<a \div b>> \o frac_digits(a % b, b, 2)

I32F32_div(a, b) == <<a \div b>> \o frac_digits(a % b, b, 4)

RECURSIVE I32F32_gt(_, _)
I32F32_gt(x, y) ==
    IF x = <<>> THEN FALSE
    ELSE IF Head(x) # Head(y) THEN Head(x) > Head(y)
    ELSE I32F32_gt(Tail(x), Tail(y))

\* n_better_prunning_scores with equal scores counted as better.
n_better_prunning_scores_or_equal(netuid_b, uid_b) ==
    Cardinality({other_uid \in 0 .. (SubnetworkN[netuid_b] - 1) :
        /\ other_uid # uid_b
        /\ PruningScores[netuid_b][other_uid] >= PruningScores[netuid_b][uid_b]})

n_better_prunning_scores(netuid_b, uid_b) ==
    Cardinality({other_uid \in 0 .. (SubnetworkN[netuid_b] - 1) :
        /\ other_uid # uid_b
        /\ PruningScores[netuid_b][other_uid] > PruningScores[netuid_b][uid_b]})

\* connection_edge_passes with an empty required network skipped.
connection_edge_passes_skip_empty(netuid_a, netuid_b, key) ==
    IF NetworksAdded[netuid_b] /\ NetworkConnect[netuid_a][netuid_b] # NoEdge
    THEN IF SubnetworkN[netuid_b] = 0 THEN TRUE
         ELSE IF Uids[netuid_b][key] = NoUid THEN FALSE
         ELSE ~ I32F32_gt(
                  I32F32_div(n_better_prunning_scores(netuid_b, Uids[netuid_b][key]),
                             SubnetworkN[netuid_b]),
                  I32F32_div(NetworkConnect[netuid_a][netuid_b], U16Max))
    ELSE TRUE

\* connection_edge_passes with an edge of a network to itself left out.
connection_edge_passes_skip_self(netuid_a, netuid_b, key) ==
    IF netuid_a = netuid_b THEN TRUE
    ELSE IF NetworksAdded[netuid_b] /\ NetworkConnect[netuid_a][netuid_b] # NoEdge
    THEN IF SubnetworkN[netuid_b] = 0 THEN FALSE
         ELSE IF Uids[netuid_b][key] = NoUid THEN FALSE
         ELSE ~ I32F32_gt(
                  I32F32_div(n_better_prunning_scores(netuid_b, Uids[netuid_b][key]),
                             SubnetworkN[netuid_b]),
                  I32F32_div(NetworkConnect[netuid_a][netuid_b], U16Max))
    ELSE TRUE

\* The body of the loop for one (netuid_b, exists) pair: TRUE when the loop
\* goes on to the next network, FALSE when the function returns false.
connection_edge_passes(netuid_a, netuid_b, key) ==
    IF NetworksAdded[netuid_b] /\ NetworkConnect[netuid_a][netuid_b] # NoEdge
    THEN IF SubnetworkN[netuid_b] = 0 THEN FALSE
         ELSE IF Uids[netuid_b][key] = NoUid THEN FALSE
         ELSE LET uid_b == Uids[netuid_b][key]
                  topk_percentile_requirement ==
                      I32F32_div(NetworkConnect[netuid_a][netuid_b], U16Max)
                  topk_percentile_value ==
                      I32F32_div(n_better_prunning_scores(netuid_b, uid_b),
                                 SubnetworkN[netuid_b])
              IN  ~ I32F32_gt(topk_percentile_value, topk_percentile_requirement)
    ELSE TRUE

\* The loop over NetworksAdded::iter(), visiting the networks in `order`.
RECURSIVE passes_in_order(_, _, _)
passes_in_order(order, netuid_a, key) ==
    IF order = <<>> THEN TRUE
    ELSE IF ~ connection_edge_passes(netuid_a, Head(order), key) THEN FALSE
    ELSE passes_in_order(Tail(order), netuid_a, key)

\* NetworksAdded::iter() yields the networks in the order of their hashed
\* keys, which is fixed for the chain but not chosen by the code.
IterOrder == <<6, 3, 1, 8, 7, 4, 2, 5>>

passes_network_connection_requirement(netuid_a, key) ==
    passes_in_order(IterOrder, netuid_a, key)

\* ------------------------------------------------------------ store writes
append_neuron(netuid, key) ==
    LET next_uid == SubnetworkN[netuid]
    IN  /\ SubnetworkN' = [SubnetworkN EXCEPT ![netuid] = next_uid + 1]
        /\ Keys' = [Keys EXCEPT ![netuid][next_uid] = key]
        /\ Uids' = [Uids EXCEPT ![netuid][key] = next_uid]
        /\ BlockAtRegistration' =
               [BlockAtRegistration EXCEPT ![netuid][next_uid] = current_block]
        /\ PruningScores' = [PruningScores EXCEPT ![netuid][next_uid] = 0]

replace_neuron(netuid, uid_to_replace, key, block_number, scores) ==
    LET old_key == Keys[netuid][uid_to_replace]
    IN  /\ SubnetworkN' = SubnetworkN
        /\ Keys' = [Keys EXCEPT ![netuid][uid_to_replace] = key]
        /\ Uids' = [Uids EXCEPT ![netuid] =
               [k \in KeySet |-> IF k = key THEN uid_to_replace
                                 ELSE IF k = old_key THEN NoUid
                                 ELSE Uids[netuid][k]]]
        /\ BlockAtRegistration' =
               [BlockAtRegistration EXCEPT ![netuid][uid_to_replace] = block_number]
        /\ PruningScores' = scores

create_account_if_non_existent(key) == Accounts \cup {key}

\* ------------------------------------------------------------ registration
\* registration_result without the check of step 4.
registration_result_no_member_check(netuid, key) ==
    IF ~ NetworksAdded[netuid] THEN "NetworkDoesNotExist"
    ELSE IF ~ (RegistrationsThisBlock[netuid] < MaxRegistrationsPerBlock[netuid])
    THEN "TooManyRegistrationsThisBlock"
    ELSE IF ~ passes_network_connection_requirement(netuid, key)
    THEN "DidNotPassConnectedNetworkRequirement"
    ELSE IF ~ (MaxAllowedUids[netuid] # 0) THEN "NetworkDoesNotExist"
    ELSE "Ok"

\* registration_result with the throttle letting one call too many through.
registration_result_throttle_inclusive(netuid, key) ==
    IF ~ NetworksAdded[netuid] THEN "NetworkDoesNotExist"
    ELSE IF ~ (RegistrationsThisBlock[netuid] <= MaxRegistrationsPerBlock[netuid])
    THEN "TooManyRegistrationsThisBlock"
    ELSE IF Uids[netuid][key] # NoUid THEN "AlreadyRegistered"
    ELSE IF ~ passes_network_connection_requirement(netuid, key)
    THEN "DidNotPassConnectedNetworkRequirement"
    ELSE IF ~ (MaxAllowedUids[netuid] # 0) THEN "NetworkDoesNotExist"
    ELSE "Ok"

\* The error of the first failing check of do_registration, "Ok" when none
\* fails.
registration_result(netuid, key) ==
    IF ~ NetworksAdded[netuid] THEN "NetworkDoesNotExist"
    ELSE IF ~ (RegistrationsThisBlock[netuid] < MaxRegistrationsPerBlock[netuid])
    THEN "TooManyRegistrationsThisBlock"
    ELSE IF Uids[netuid][key] # NoUid THEN "AlreadyRegistered"
    ELSE IF ~ passes_network_connection_requirement(netuid, key)
    THEN "DidNotPassConnectedNetworkRequirement"
    ELSE IF ~ (MaxAllowedUids[netuid] # 0) THEN "NetworkDoesNotExist"
    ELSE "Ok"

\* The call has gone past step 10, so the account write has happened.
reached_account_creation(netuid, key) ==
    /\ NetworksAdded[netuid]
    /\ RegistrationsThisBlock[netuid] < MaxRegistrationsPerBlock[netuid]
    /\ Uids[netuid][key] = NoUid
    /\ passes_network_connection_requirement(netuid, key)

accounts_after(netuid, key) ==
    IF reached_account_creation(netuid, key)
    THEN create_account_if_non_existent(key)
    ELSE Accounts

\* appends with the last free slot never used.
appends_one_short(netuid) == SubnetworkN[netuid] + 1 < MaxAllowedUids[netuid]

\* appends with a full network still appended to.
appends_when_full(netuid) == SubnetworkN[netuid] <= MaxAllowedUids[netuid]

\* appends with the capacity never looked at.
appends_beyond_capacity(netuid) == SubnetworkN[netuid] >= 0

\* Step 12: append when there is a free slot, prune otherwise.
appends(netuid) == SubnetworkN[netuid] < MaxAllowedUids[netuid]

\* block_count_after with the call counted before its checks.
block_count_after_any_call(netuid, res) ==
    [RegistrationsThisBlock EXCEPT ![netuid] = (@ + 1) % U16Mod]

\* Step 14: the counters after a call that ended with `res`.  The addition of
\* line 105 is a plain u16 `+= 1`: at u16::MAX it wraps to 0 in a build
\* without overflow checks and panics in a build with them.
interval_add_panics(netuid, res, overflow_checks) ==
    /\ res = "Ok"
    /\ overflow_checks
    /\ RegistrationsThisInterval[netuid] = U16Max

interval_count_after(netuid, res) ==
    IF res = "Ok"
    THEN [RegistrationsThisInterval EXCEPT ![netuid] = (@ + 1) % U16Mod]
    ELSE RegistrationsThisInterval

block_count_after(netuid, res) ==
    IF res = "Ok"
    THEN [RegistrationsThisBlock EXCEPT ![netuid] = (@ + 1) % U16Mod]
    ELSE RegistrationsThisBlock

do_registration(key, netuid) ==
    LET res == registration_result(netuid, key)
        subnetwork_uid == IF appends(netuid) THEN SubnetworkN[netuid]
                          ELSE neuron_to_prune(netuid)
    IN  \E overflow_checks \in BOOLEAN :
        LET panics == interval_add_panics(netuid, res, overflow_checks)
        IN  /\ Accounts' = accounts_after(netuid, key)
            /\ IF res = "Ok"
               THEN IF appends(netuid)
                    THEN append_neuron(netuid, key)
                    ELSE replace_neuron(netuid, subnetwork_uid, key,
                             current_block, scores_after_prune(netuid))
               ELSE UNCHANGED <<slotVars, PruningScores>>
            /\ RegistrationsThisInterval' =
                   IF panics THEN RegistrationsThisInterval
                   ELSE interval_count_after(netuid, res)
            /\ RegistrationsThisBlock' =
                   IF panics THEN RegistrationsThisBlock
                   ELSE block_count_after(netuid, res)
            /\ last' = [op |-> "do_registration", netuid |-> netuid,
                        key |-> IF res = "Ok" /\ ~ panics THEN key ELSE NoKey,
                        res |-> IF panics THEN "Panic" ELSE res,
                        uid |-> IF res = "Ok" /\ ~ panics THEN subnetwork_uid
                                ELSE 0]
            /\ UNCHANGED current_block

\* ------------------------------------------------------------- environment
\* The scoring mechanism re-scores an occupied slot between registrations.
set_pruning_score_for_uid(netuid, uid, pruning_score) ==
    /\ uid < SubnetworkN[netuid]
    /\ PruningScores' = [PruningScores EXCEPT ![netuid][uid] = pruning_score]
    /\ last' = Idle
    /\ UNCHANGED <<slotVars, counterVars, Accounts, current_block>>

\* The chain moves to the next block.
step_block ==
    /\ current_block < MaxBlock
    /\ current_block' = current_block + 1
    /\ last' = Idle
    /\ UNCHANGED <<slotVars, PruningScores, counterVars, Accounts>>

Next ==
    \/ \E key \in KeySet, netuid \in Nets : do_registration(key, netuid)
    \/ \E netuid \in ScoredNets : get_neuron_to_prune(netuid)
    \/ \E netuid \in ScoredNets, uid \in UidSpace, s \in Scores :
           set_pruning_score_for_uid(netuid, uid, s)
    \/ step_block

Spec == Init /\ [][Next]_vars

\* ------------------------------------------------- the selector on its own
\* Network 8 as earlier blocks left it: any number of its three slots
\* occupied, with any scores and any registration blocks up to now.
SelectorNets == {8}

InitSelector ==
    /\ current_block \in 0 .. MaxBlock
    /\ \E n \in 0 .. 3 :
          /\ SubnetworkN = [m \in Nets |-> IF m \in SelectorNets THEN n ELSE 0]
          /\ Keys = [m \in Nets |-> [u \in UidSpace |->
                        IF m \in SelectorNets /\ u < n THEN u + 1 ELSE NoKey]]
          /\ Uids = [m \in Nets |-> [k \in KeySet |->
                        IF m \in SelectorNets /\ k <= n THEN k - 1 ELSE NoUid]]
          /\ \E scores \in [UidSpace -> Scores],
                blocks \in [UidSpace -> 0 .. MaxBlock] :
                /\ \A u \in UidSpace : u >= n => scores[u] = 0 /\ blocks[u] = 0
                /\ \A u \in UidSpace : blocks[u] <= current_block
                /\ PruningScores = [m \in Nets |->
                       IF m \in SelectorNets THEN scores
                       ELSE [u \in UidSpace |-> 0]]
                /\ BlockAtRegistration = [m \in Nets |->
                       IF m \in SelectorNets THEN blocks
                       ELSE [u \in UidSpace |-> 0]]
    /\ RegistrationsThisBlock = [m \in Nets |-> 0]
    /\ RegistrationsThisInterval = [m \in Nets |-> 0]
    /\ Accounts = KeySet
    /\ last = Idle

NextSelector ==
    \/ \E netuid \in SelectorNets : get_neuron_to_prune(netuid)
    \/ \E netuid \in SelectorNets, uid \in UidSpace, s \in Scores :
           set_pruning_score_for_uid(netuid, uid, s)
    \/ step_block

SpecSelector == InitSelector /\ [][NextSelector]_vars

\* ------------------------------------------- the percentile test on its own
\* Step 6 of passes_network_connection_requirement: the key fails the edge
\* when topk_percentile_value > topk_percentile_requirement.
topk_percentile_fails(n_better, subnet_n, requirement) ==
    I32F32_gt(I32F32_div(n_better, subnet_n), I32F32_div(requirement, U16Max))

\* Counts of better-scored uids, sizes of the required network and thresholds
\* the test is run on: the small ones, the ends of the u16 range, and the
\* values around which the two quotients are closest to each other.
TopkCounts == {0, 1, 2, 3, 255, 21845, 32767, 65533, 65534}
TopkSizes == {1, 2, 3, 4, 257, 32768, 65534, 65535}
TopkRequirements ==
    {0, 1, 2, 255, 16383, 16384, 21844, 21845, 21846, 32767, 32768, 43689,
     43690, 49151, 65533, 65534, 65535}

\* The test is run for a key with n_better better-scored uids among the
\* subnet_n of the required network.
topk_percentile_step(n_better, subnet_n, requirement) ==
    /\ n_better < subnet_n
    /\ last' = [op |-> "topk_percentile", n_better |-> n_better,
                subnet_n |-> subnet_n, requirement |-> requirement,
                fails |-> topk_percentile_fails(n_better, subnet_n, requirement)]
    /\ UNCHANGED <<slotVars, PruningScores, counterVars, Accounts,
                   current_block>>

NextTopk ==
    \E n_better \in TopkCounts, subnet_n \in TopkSizes,
       requirement \in TopkRequirements :
          topk_percentile_step(n_better, subnet_n, requirement)

SpecTopk == Init /\ [][NextTopk]_vars

\* ------------------------------------------ a network that requires itself
\* Network 6 as earlier blocks left it before its requirement on itself was
\* set: empty, or its one slot held by some key, registered in this block
\* (and then counted in this block or not) or in an earlier one.
SelfEdgeNets == {6}

InitSelfEdge ==
    /\ current_block \in 0 .. MaxBlock
    /\ \E n \in 0 .. 1, key \in KeySet, score \in Scores,
          block \in 0 .. MaxBlock, count \in 0 .. 1 :
          /\ block <= current_block
          /\ n = 0 => (key = 1 /\ score = 0 /\ block = 0)
          /\ count = 1 => (n = 1 /\ block = current_block)
          /\ SubnetworkN = [m \in Nets |-> IF m \in SelfEdgeNets THEN n ELSE 0]
          /\ Keys = [m \in Nets |-> [u \in UidSpace |->
                        IF m \in SelfEdgeNets /\ u < n THEN key ELSE NoKey]]
          /\ Uids = [m \in Nets |-> [k \in KeySet |->
                        IF m \in SelfEdgeNets /\ n = 1 /\ k = key THEN 0
                        ELSE NoUid]]
          /\ PruningScores = [m \in Nets |-> [u \in UidSpace |->
                        IF m \in SelfEdgeNets /\ u < n THEN score ELSE 0]]
          /\ BlockAtRegistration = [m \in Nets |-> [u \in UidSpace |->
                        IF m \in SelfEdgeNets /\ u < n THEN block ELSE 0]]
          /\ RegistrationsThisBlock =
                 [m \in Nets |-> IF m \in SelfEdgeNets THEN count ELSE 0]
          /\ RegistrationsThisInterval =
                 [m \in Nets |-> IF m \in SelfEdgeNets THEN count ELSE 0]
    /\ Accounts = KeySet
    /\ last = Idle

NextSelfEdge ==
    \/ \E key \in KeySet, netuid \in SelfEdgeNets : do_registration(key, netuid)
    \/ \E netuid \in SelfEdgeNets, uid \in UidSpace, s \in Scores :
           set_pruning_score_for_uid(netuid, uid, s)
    \/ step_block

SpecSelfEdge == InitSelfEdge /\ [][NextSelfEdge]_vars

\* ------------------------------------------- late in a registration interval
\* Network 1 after a long interval: both slots held, by the keys 1 and 2, and
\* its count of the interval one below u16::MAX; a new block has just begun.
OverflowNets == {1}

InitOverflow ==
    /\ SubnetworkN = [n \in Nets |-> IF n \in OverflowNets THEN 2 ELSE 0]
    /\ Keys = [n \in Nets |-> [u \in UidSpace |->
                  IF n \in OverflowNets /\ u < 2 THEN u + 1 ELSE NoKey]]
    /\ Uids = [n \in Nets |-> [k \in KeySet |->
                  IF n \in OverflowNets /\ k <= 2 THEN k - 1 ELSE NoUid]]
    /\ PruningScores = [n \in Nets |-> [u \in UidSpace |-> 0]]
    /\ BlockAtRegistration = [n \in Nets |-> [u \in UidSpace |-> 0]]
    /\ RegistrationsThisBlock = [n \in Nets |-> 0]
    /\ RegistrationsThisInterval =
           [n \in Nets |-> IF n \in OverflowNets THEN U16Max - 1 ELSE 0]
    /\ Accounts = KeySet
    /\ current_block = 0
    /\ last = Idle

SpecOverflow == InitOverflow /\ [][Next]_vars

\* ------------------------------------------------- vocabulary of the claims
\* Orders the loop over the networks may run in: the chain's, ascending,
\* descending, and two that visit the low and the high networks first.
IterOrders ==
    {IterOrder, <<1, 2, 3, 4, 5, 6, 7, 8>>, <<8, 7, 6, 5, 4, 3, 2, 1>>,
     <<3, 1, 2, 4, 5, 6, 7, 8>>, <<5, 7, 6, 8, 4, 1, 3, 2>>}

OccupiedUids(netuid) == 0 .. (SubnetworkN[netuid] - 1)

IsImmune(netuid, uid) ==
    current_block - BlockAtRegistration[netuid][uid] < ImmunityPeriod[netuid]

NonImmuneUids(netuid) == {u \in OccupiedUids(netuid) : ~ IsImmune(netuid, u)}

\* This step is a call of the selector on netuid that returned uid, made on
\* its own or by a registration that found the network full.
Selected(netuid, uid) ==
    /\ last'.netuid = netuid
    /\ last'.uid = uid
    /\ \/ last'.op = "get_neuron_to_prune"
       \/ /\ last'.op = "do_registration"
          /\ last'.res = "Ok"
          /\ SubnetworkN[netuid] >= MaxAllowedUids[netuid]

\* uid has the least score of the set, and the highest index among the uids
\* of the set with that score.
MinHighestIndexed(netuid, uid, set) ==
    /\ uid \in set
    /\ \A v \in set :
          /\ PruningScores[netuid][uid] <= PruningScores[netuid][v]
          /\ PruningScores[netuid][v] = PruningScores[netuid][uid] => v <= uid

MinLowestIndexed(netuid, uid, set) ==
    /\ uid \in set
    /\ \A v \in set :
          /\ PruningScores[netuid][uid] <= PruningScores[netuid][v]
          /\ PruningScores[netuid][v] = PruningScores[netuid][uid] => uid <= v

\* ------------------------------------------------------------------ claims
\* C1: on a full network with at least one non-immune slot,
\* get_neuron_to_prune returns a non-immune uid of minimum pruning score
\* among the non-immune slots, the highest-indexed one on ties, for every
\* assignment of scores, u16::MAX included.
C1_EvictsMinNonImmune ==
    [][\A netuid \in Nets, uid \in UidSpace :
          ( /\ Selected(netuid, uid)
            /\ SubnetworkN[netuid] > 0
            /\ SubnetworkN[netuid] = MaxAllowedUids[netuid]
            /\ NonImmuneUids(netuid) # {} )
          => MinHighestIndexed(netuid, uid, NonImmuneUids(netuid))]_vars

\* C2: when every occupied slot is immune, get_neuron_to_prune returns a uid
\* of minimum pruning score over all slots, the lowest-indexed one on ties.
C2_AllImmuneEvictsMinLowest ==
    [][\A netuid \in Nets, uid \in UidSpace :
          ( /\ Selected(netuid, uid)
            /\ SubnetworkN[netuid] > 0
            /\ NonImmuneUids(netuid) = {} )
          => MinLowestIndexed(netuid, uid, OccupiedUids(netuid))]_vars

\* The selector has just returned uid 1 of a network of two immune slots.
C2_Witness ==
    /\ last.op = "get_neuron_to_prune"
    /\ SubnetworkN[last.netuid] >= 2
    /\ NonImmuneUids(last.netuid) = {}
    /\ last.uid = 1
    /\ PruningScores[last.netuid][0] < U16Max

\* C8: right after get_neuron_to_prune on a network with occupants, the
\* pruning score of the uid it returned is u16::MAX.
C8_ReturnedUidScoreIsMax ==
    (last.op = "get_neuron_to_prune" /\ SubnetworkN[last.netuid] > 0)
        => PruningScores[last.netuid][last.uid] = U16Max

\* The selector has just returned uid 1 of a network with two occupants.
C8_Witness ==
    /\ last.op = "get_neuron_to_prune"
    /\ SubnetworkN[last.netuid] >= 2
    /\ last.uid = 1
    /\ PruningScores[last.netuid][0] = 0

\* This step is a call of do_registration on netuid that ended with Ok.
Registered(netuid) ==
    /\ last'.op = "do_registration"
    /\ last'.res = "Ok"
    /\ last'.netuid = netuid

\* The errors do_registration aborts with.
AbortReasons ==
    {"NetworkDoesNotExist", "TooManyRegistrationsThisBlock",
     "AlreadyRegistered", "DidNotPassConnectedNetworkRequirement"}

\* C3: a call of do_registration that aborts, whatever the reason, leaves
\* occupied_count, every slot's key, pruning score and registration block,
\* the key/uid index and both registration counters of every network as
\* they were.
C3_AbortLeavesRegistry ==
    [][(last'.op = "do_registration" /\ last'.res \in AbortReasons)
          => UNCHANGED <<SubnetworkN, Keys, PruningScores, BlockAtRegistration,
                         Uids, RegistrationsThisBlock,
                         RegistrationsThisInterval>>]_vars

\* A call on network 3, which has no slots, has just aborted while network 1
\* is full.
C3_Witness ==
    /\ last.op = "do_registration"
    /\ last.res = "NetworkDoesNotExist"
    /\ last.netuid = 3
    /\ SubnetworkN[1] = MaxAllowedUids[1]

\* C4: a call of do_registration that aborts, the abort on capacity 0
\* included, leaves the set of ledger accounts as it was.
C4_AbortCreatesNoAccount ==
    [][(last'.op = "do_registration" /\ last'.res \in AbortReasons)
          => Accounts' = Accounts]_vars

\* C5: on a network with occupied_count < capacity a successful
\* do_registration raises occupied_count by one, places the caller's key at
\* uid = the previous occupied_count, reports that uid, and leaves key,
\* pruning score and registration block of the occupied slots unchanged.
C5_AppendTakesNextUid ==
    [][\A netuid \in Nets :
          (Registered(netuid) /\ SubnetworkN[netuid] < MaxAllowedUids[netuid])
          => /\ SubnetworkN'[netuid] = SubnetworkN[netuid] + 1
             /\ last'.uid = SubnetworkN[netuid]
             /\ Keys'[netuid][SubnetworkN[netuid]] = last'.key
             /\ \A u \in OccupiedUids(netuid) :
                   /\ Keys'[netuid][u] = Keys[netuid][u]
                   /\ PruningScores'[netuid][u] = PruningScores[netuid][u]
                   /\ BlockAtRegistration'[netuid][u] =
                          BlockAtRegistration[netuid][u]]_vars

\* A key has just been appended at uid 1 behind a slot that was re-scored and
\* registered in an earlier block.
C5_Witness ==
    /\ last.op = "do_registration"
    /\ last.res = "Ok"
    /\ last.uid = 1
    /\ SubnetworkN[last.netuid] = 2
    /\ RegistrationsThisInterval[last.netuid] = 2
    /\ Keys[last.netuid][1] = last.key
    /\ PruningScores[last.netuid][0] = 1
    /\ BlockAtRegistration[last.netuid][0] < current_block

\* C6: on a full network with capacity > 0 a successful do_registration
\* leaves occupied_count unchanged, overwrites the slot get_neuron_to_prune
\* chooses with the caller's key and the current block, removes the previous
\* occupant from the index, and leaves key and registration block of every
\* other slot unchanged.
C6_EvictOverwritesChosenSlot ==
    [][\A netuid \in Nets :
          ( /\ Registered(netuid)
            /\ SubnetworkN[netuid] >= MaxAllowedUids[netuid]
            /\ MaxAllowedUids[netuid] > 0 )
          => /\ SubnetworkN' = SubnetworkN
             /\ last'.uid = neuron_to_prune(netuid)
             /\ Keys'[netuid][last'.uid] = last'.key
             /\ BlockAtRegistration'[netuid][last'.uid] = current_block
             /\ Uids'[netuid][Keys[netuid][last'.uid]] = NoUid
             /\ Uids'[netuid][last'.key] = last'.uid
             /\ \A m \in Nets, v \in UidSpace :
                   (m # netuid \/ v # last'.uid)
                   => /\ Keys'[m][v] = Keys[m][v]
                      /\ BlockAtRegistration'[m][v] =
                             BlockAtRegistration[m][v]]_vars

\* A registration has just succeeded on a network that had already admitted
\* as many keys as it has slots: it replaced uid 0, although occupied earlier.
C6_Witness ==
    /\ last.op = "do_registration"
    /\ last.res = "Ok"
    /\ RegistrationsThisInterval[last.netuid] > SubnetworkN[last.netuid]
    /\ SubnetworkN[last.netuid] = MaxAllowedUids[last.netuid]
    /\ last.uid = 0
    /\ Keys[last.netuid][0] = last.key
    /\ BlockAtRegistration[last.netuid][0] = current_block
    /\ \E k \in KeySet : k \in Accounts /\ Uids[last.netuid][k] = NoUid

\* C7: a successful do_registration raises registrations_this_block and
\* registrations_this_interval of its network by exactly one, in the append
\* and in the evict branch, and changes no counter of another network.
C7_CountersIncrementByOne ==
    [][\A netuid \in Nets :
          Registered(netuid)
          => /\ RegistrationsThisBlock'[netuid] =
                    RegistrationsThisBlock[netuid] + 1
             /\ RegistrationsThisInterval'[netuid] =
                    RegistrationsThisInterval[netuid] + 1
             /\ \A m \in Nets \ {netuid} :
                   /\ RegistrationsThisBlock'[m] = RegistrationsThisBlock[m]
                   /\ RegistrationsThisInterval'[m] =
                          RegistrationsThisInterval[m]]_vars

\* The requirement edges of netuid are all satisfied for key.
Eligible(netuid, key) ==
    \A netuid_b \in Nets : connection_edge_passes(netuid, netuid_b, key)

IsMember(netuid, key) ==
    \E u \in OccupiedUids(netuid) : Keys[netuid][u] = key

\* The outcome the fixed order of checks gives.
FirstFailingCheck(netuid, key) ==
    IF ~ NetworksAdded[netuid] THEN "NetworkDoesNotExist"
    ELSE IF RegistrationsThisBlock[netuid] >= MaxRegistrationsPerBlock[netuid]
    THEN "TooManyRegistrationsThisBlock"
    ELSE IF IsMember(netuid, key) THEN "AlreadyRegistered"
    ELSE IF ~ Eligible(netuid, key)
    THEN "DidNotPassConnectedNetworkRequirement"
    ELSE IF MaxAllowedUids[netuid] = 0 THEN "NetworkDoesNotExist"
    ELSE "Ok"

\* C9: do_registration aborts with the error of the first failing check in
\* the order network missing, throttle, already a member, eligibility,
\* capacity 0, and succeeds exactly when none fails.
C9_FirstFailingCheckDecides ==
    [][last'.op = "do_registration"
          => \A key \in KeySet :
                do_registration(key, last'.netuid)
                => last'.res = FirstFailingCheck(last'.netuid, key)]_vars

\* C10: if the target network has a requirement edge to an existing network
\* without occupants, passes_network_connection_requirement is false for
\* every key, whatever the other edges and the order of iteration.
C10_EmptyRequiredNetworkFails ==
    \A netuid_a \in Nets, netuid_b \in Nets, key \in KeySet,
       order \in IterOrders :
          ( /\ NetworkConnect[netuid_a][netuid_b] # NoEdge
            /\ NetworksAdded[netuid_b]
            /\ SubnetworkN[netuid_b] = 0 )
          => ~ passes_in_order(order, netuid_a, key)

\* A call on network 5, which requires network 1 and the empty network 3,
\* has just been refused while network 1 has occupants.
C10_Witness ==
    /\ last.op = "do_registration"
    /\ last.netuid = 5
    /\ last.res = "DidNotPassConnectedNetworkRequirement"
    /\ SubnetworkN[1] = MaxAllowedUids[1]
    /\ SubnetworkN[3] = 0

\* The product of two u16 values as <<high, low>> base-65536 digits.
Mul16(x, y) ==
    LET p1 == (x \div 256) * y
        p0 == (x % 256) * y
        lo == (p1 % 256) * 256 + p0
    IN  <<(p1 \div 256) + (lo \div 65536), lo % 65536>>

\* n_better / subnet_n > requirement / 65535 as exact fractions, that is
\* n_better * 65535 > requirement * subnet_n.
ExactlyGreater(n_better, subnet_n, requirement) ==
    LET l == Mul16(n_better, U16Max)
        r == Mul16(requirement, subnet_n)
    IN  l[1] > r[1] \/ (l[1] = r[1] /\ l[2] > r[2])

\* C11: the I32F32 percentile test fails a key exactly when n_better /
\* occupied_count is greater than threshold / 65535 as exact fractions, so
\* equal fractions pass and the truncation of the two quotients to 32
\* fractional bits never changes the verdict.
C11_FixedPointVerdictIsExact ==
    last.op = "topk_percentile"
        => (last.fails <=>
               ExactlyGreater(last.n_better, last.subnet_n, last.requirement))

\* The test has just failed a key whose rank fraction 1/65534 is above the
\* threshold 1/65535 by less than 2^-31.
C11_Witness ==
    /\ last.op = "topk_percentile"
    /\ last.n_better = 1
    /\ last.subnet_n = 65534
    /\ last.requirement = 1
    /\ last.fails

\* The existing networks netuid_a has a requirement edge to.
RequiredNets(netuid_a) ==
    {netuid_b \in Nets :
        NetworksAdded[netuid_b] /\ NetworkConnect[netuid_a][netuid_b] # NoEdge}

\* Another uid of netuid_b has a strictly greater pruning score than key's.
HasBetterScored(netuid_b, key) ==
    \E u \in OccupiedUids(netuid_b) :
        /\ Keys[netuid_b][u] # key
        /\ PruningScores[netuid_b][u] > PruningScores[netuid_b][Uids[netuid_b][key]]

\* C12: for a target network whose only requirement edge goes to a non-empty
\* network B and a key that is a member of B, threshold 65535 lets the key
\* pass whatever its score, and threshold 0 lets it pass exactly when no
\* other uid of B has a strictly greater pruning score.
C12_ThresholdEnds ==
    \A netuid_a \in Nets, netuid_b \in Nets, key \in KeySet :
        ( /\ RequiredNets(netuid_a) = {netuid_b}
          /\ SubnetworkN[netuid_b] > 0
          /\ IsMember(netuid_b, key) )
        => /\ NetworkConnect[netuid_a][netuid_b] = U16Max
                => passes_network_connection_requirement(netuid_a, key)
           /\ NetworkConnect[netuid_a][netuid_b] = 0
                => (passes_network_connection_requirement(netuid_a, key)
                       <=> ~ HasBetterScored(netuid_b, key))

\* Network 2, which requires the top of network 1, has just admitted a key
\* that shares a top score above 0 with the other member of network 1.
C12_Witness ==
    /\ last.op = "do_registration"
    /\ last.res = "Ok"
    /\ last.netuid = 2
    /\ SubnetworkN[1] = 2
    /\ IsMember(1, last.key)
    /\ PruningScores[1][0] = PruningScores[1][1]
    /\ PruningScores[1][0] > 0

\* The uids of netuid that hold a key.
SlotsHeld(netuid) == {u \in UidSpace : Keys[netuid][u] # NoKey}

\* C13: through every sequence of do_registration calls, successful or
\* aborted, every network has occupied_count <= capacity and its occupied
\* uids are exactly 0 .. occupied_count - 1, and no step lowers the
\* occupied_count of a network.
C13_DenseAndNeverShrinks ==
    /\ [](\A netuid \in Nets :
             /\ SubnetworkN[netuid] <= MaxAllowedUids[netuid]
             /\ SlotsHeld(netuid) = OccupiedUids(netuid))
    /\ [][\A netuid \in Nets : SubnetworkN'[netuid] >= SubnetworkN[netuid]]_vars

\* The third registration on network 1 has just replaced uid 1 of its two
\* slots, and network 2 holds a key as well.
C13_Witness ==
    /\ last.op = "do_registration"
    /\ last.res = "Ok"
    /\ last.netuid = 1
    /\ last.uid = 1
    /\ RegistrationsThisInterval[1] = 3
    /\ SubnetworkN[1] = 2
    /\ SubnetworkN[2] = 1

\* C14: through every sequence of do_registration calls each key holds at
\* most one uid per network, and the key -> uid index and the uid -> key
\* slots of a network are inverse to each other.
C14_IndexMatchesSlots ==
    \A netuid \in Nets :
        /\ \A u \in OccupiedUids(netuid), v \in OccupiedUids(netuid) :
              Keys[netuid][u] = Keys[netuid][v] => u = v
        /\ \A key \in KeySet, u \in UidSpace :
              Uids[netuid][key] = u
                  <=> (u \in OccupiedUids(netuid) /\ Keys[netuid][u] = key)

\* A registration on the full network 1 has just evicted uid 0, whose key
\* is still the member of network 2.
C14_Witness ==
    /\ last.op = "do_registration"
    /\ last.res = "Ok"
    /\ last.netuid = 1
    /\ last.uid = 0
    /\ RegistrationsThisInterval[1] = 3
    /\ \E key \in KeySet : Uids[1][key] = NoUid /\ Uids[2][key] = 0

\* The slots the selector is meant to pick from: the non-immune ones, or all
\* of them when all are immune.
PickedClass(netuid) ==
    IF NonImmuneUids(netuid) # {} THEN NonImmuneUids(netuid)
    ELSE OccupiedUids(netuid)

\* get_neuron_to_prune has just returned last.uid, and a second call made
\* now, with nothing in between, returns the same uid.
ReturnedAgain ==
    /\ last.op = "get_neuron_to_prune"
    /\ SubnetworkN[last.netuid] > 0
    /\ neuron_to_prune(last.netuid) = last.uid

\* C15 as stated: a second call of get_neuron_to_prune right after the first
\* returns the same uid only if, after the first call's write, that uid is
\* the unique minimum-score slot of the class the selector picks from.
C15_ReturnedAgainOnlyIfUniqueMin ==
    ReturnedAgain
        => /\ last.uid \in PickedClass(last.netuid)
           /\ \A v \in PickedClass(last.netuid) \ {last.uid} :
                 PruningScores[last.netuid][v]
                     > PruningScores[last.netuid][last.uid]

\* C15, amended: a second call of get_neuron_to_prune right after the first
\* returns the same uid only if, after the first call's write, that uid has
\* a minimum score among all occupied slots, that is, every occupied slot
\* has score u16::MAX.
C15_ReturnedAgainOnlyIfMin ==
    ReturnedAgain
        => \A v \in OccupiedUids(last.netuid) :
              PruningScores[last.netuid][v]
                  >= PruningScores[last.netuid][last.uid]

\* The selector has returned uid 0 of three occupied slots and would return
\* it again.
C15_Witness ==
    /\ ReturnedAgain
    /\ SubnetworkN[last.netuid] = 3
    /\ last.uid = 0

\* C16: when every occupied slot of a network has pruning score u16::MAX,
\* a call of get_neuron_to_prune returns the last uid, occupied_count - 1.
C16_AllPrunedReturnsLast ==
    [][\A netuid \in Nets :
          ( /\ last'.op = "get_neuron_to_prune"
            /\ last'.netuid = netuid
            /\ SubnetworkN[netuid] > 0
            /\ \A u \in OccupiedUids(netuid) :
                  PruningScores[netuid][u] = U16Max )
          => last'.uid = SubnetworkN[netuid] - 1]_vars

\* C17: when a network has a non-immune slot, whatever its pruning score,
\* the uid get_neuron_to_prune returns is non-immune.
C17_ImmuneOnlyWhenAllImmune ==
    [][\A netuid \in Nets, uid \in UidSpace :
          ( /\ Selected(netuid, uid)
            /\ SubnetworkN[netuid] > 0
            /\ NonImmuneUids(netuid) # {} )
          => uid \in NonImmuneUids(netuid)]_vars

\* C18: get_neuron_to_prune on a network with occupants returns one of the
\* occupied uids 0 .. occupied_count - 1; on a network without occupants it
\* returns 0 and writes no score; and a registration that takes the eviction
\* branch finds at least one occupant.
C18_ReturnsOccupiedUid ==
    [][/\ \A netuid \in Nets :
             (last'.op = "get_neuron_to_prune" /\ last'.netuid = netuid)
             => IF SubnetworkN[netuid] = 0
                THEN last'.uid = 0 /\ PruningScores' = PruningScores
                ELSE last'.uid \in OccupiedUids(netuid)
       /\ \A netuid \in Nets :
             ( /\ Registered(netuid)
               /\ ~ (SubnetworkN[netuid] < MaxAllowedUids[netuid]) )
             => /\ SubnetworkN[netuid] > 0
                /\ last'.uid \in OccupiedUids(netuid)]_vars

\* The selector has just returned uid 1 of network 1, whose other slot was
\* taken over in this block by a registration that found the network full.
C18_Witness ==
    /\ last.op = "get_neuron_to_prune"
    /\ last.netuid = 1
    /\ last.uid = 1
    /\ SubnetworkN[1] = 2
    /\ RegistrationsThisInterval[1] = 3
    /\ BlockAtRegistration[1][0] = 1
    /\ BlockAtRegistration[1][1] = 0

\* C19: registrations_this_block of a network never exceeds its
\* max_registrations_per_block, and a call of do_registration on an existing
\* network whose count has reached the maximum aborts with
\* TooManyRegistrationsThisBlock.
C19_ThrottleHolds ==
    /\ [](\A netuid \in Nets :
             RegistrationsThisBlock[netuid] <= MaxRegistrationsPerBlock[netuid])
    /\ [][\A netuid \in Nets :
             ( /\ last'.op = "do_registration"
               /\ last'.netuid = netuid
               /\ NetworksAdded[netuid]
               /\ RegistrationsThisBlock[netuid]
                      = MaxRegistrationsPerBlock[netuid] )
             => last'.res = "TooManyRegistrationsThisBlock"]_vars

\* A call on network 1 has just been refused by the throttle after three
\* registrations, while a key with an account is on neither network 1 nor 2.
C19_Witness ==
    /\ last.op = "do_registration"
    /\ last.netuid = 1
    /\ last.res = "TooManyRegistrationsThisBlock"
    /\ RegistrationsThisBlock[1] = 3
    /\ \E key \in Accounts : Uids[1][key] = NoUid /\ Uids[2][key] = NoUid

\* The existing networks that have a requirement edge to themselves.
SelfRequiring ==
    {netuid \in Nets :
        NetworksAdded[netuid] /\ NetworkConnect[netuid][netuid] # NoEdge}

\* C20 as stated: a call of do_registration on an existing network that
\* requires itself aborts with AlreadyRegistered when the caller is a
\* member and with DidNotPassConnectedNetworkRequirement when it is not,
\* and leaves occupied_count as it was.
C20_SelfEdgeAbortsByMembership ==
    [][(last'.op = "do_registration" /\ last'.netuid \in SelfRequiring)
          => /\ SubnetworkN' = SubnetworkN
             /\ \A key \in KeySet :
                   do_registration(key, last'.netuid)
                   => last'.res = IF IsMember(last'.netuid, key)
                                  THEN "AlreadyRegistered"
                                  ELSE "DidNotPassConnectedNetworkRequirement"]_vars

\* C20, amended: a call of do_registration on an existing network that
\* requires itself never succeeds and leaves occupied_count as it was; it
\* aborts with TooManyRegistrationsThisBlock when the throttle of the block
\* is used up, and otherwise with AlreadyRegistered for a member and
\* DidNotPassConnectedNetworkRequirement for any other key.
C20_SelfEdgeNeverRegisters ==
    [][(last'.op = "do_registration" /\ last'.netuid \in SelfRequiring)
          => /\ SubnetworkN' = SubnetworkN
             /\ last'.res # "Ok"
             /\ \A key \in KeySet :
                   do_registration(key, last'.netuid)
                   => last'.res =
                        IF RegistrationsThisBlock[last'.netuid]
                               >= MaxRegistrationsPerBlock[last'.netuid]
                        THEN "TooManyRegistrationsThisBlock"
                        ELSE IF IsMember(last'.netuid, key)
                        THEN "AlreadyRegistered"
                        ELSE "DidNotPassConnectedNetworkRequirement"]_vars

\* The member of network 6, which requires itself, has just been refused as
\* already registered, in a block after its registration.
C20_Witness ==
    /\ last.op = "do_registration"
    /\ last.netuid = 6
    /\ last.res = "AlreadyRegistered"
    /\ SubnetworkN[6] = 1
    /\ BlockAtRegistration[6][0] < current_block

====
